---- MODULE Spec2Model ----
(***************************************************************************)
(* Cross-chain event listener of src/script.py: main() builds the two      *)
(* connectors, the bridge handler and the event handler, EventListener     *)
(* loads or seeds its checkpoint and run() polls the source chain in       *)
(* chunks, hands each fetched event to process_event and saves the         *)
(* checkpoint after each chunk.  The state file, the chain and the RPC     *)
(* faults are the environment.                                             *)
(***************************************************************************)
EXTENDS Integers, Sequences, FiniteSets, TLC

\* Highest block the modelled source chain reaches.
MaxHeight == 3
\* Chunk width (script.py:77 sets 100; scaled to the modelled chain).
BLOCK_PROCESSING_CHUNK_SIZE == 2
\* Number of process_event calls explored by the handler-only specification.
MaxCalls == 4
\* script.py:25 and script.py:20.
DESTINATION_CHAIN_ID == 80001
SOURCE_CHAIN_ID == 11155111

VARIABLES
    pc,                \* position of the process in main() / run()
    shutting_down,     \* KeyboardInterrupt taken by run() (line 302)
    crashed,           \* the process was killed at pc
    connected,         \* connectors whose web3 is set (lines 115-118)
    sighting,          \* a call of get_sighting_probability: arguments, result
    chain_height,      \* current height of the source chain
    chain_log,         \* height -> sequence of decoded DepositInitiated logs
    file,              \* content of STATE_FILE_PATH on disk
    state,             \* EventListener.state
    latest_block,      \* local of _run_cycle (line 311)
    start_block,       \* local of _run_cycle (line 312)
    block_num,         \* loop variable of line 321
    from_block,        \* line 322
    to_block,          \* line 323
    events,            \* events of the fetched chunk not yet handled (line 331)
    processed_events,  \* CrossChainEventHandler.processed_events
    sink,              \* the [SIMULATION] log lines 246-248, in order
    outcome,           \* how the last process_event call ended
    last_event,        \* the event of the last process_event call
    calls,             \* number of process_event calls made
    handed,            \* history: events passed to process_event
    seed,              \* history: checkpoint after _load_state
    windows,           \* history: windows fetched by the current cycle
    fetch_fault,       \* history: fault of the last fetch_events call
    cycle_fault,       \* history: a fault in this cycle, or in the final save
    save_faulted,      \* history: some _save_state hit an IOError
    old_file,          \* history: file content when _save_state was entered
    dispatched_upto,   \* history: highest window bound with a dispatch
    prev_window,       \* history: the last window fetched in this run
    seeded_from        \* history: where _load_state took the checkpoint from

vars == <<pc, shutting_down, crashed, connected, sighting, chain_height, chain_log, file, state,
          latest_block, start_block, block_num, from_block, to_block, events,
          processed_events, sink, outcome, last_event, calls, handed, seed,
          windows, fetch_fault, cycle_fault, save_faulted, old_file,
          dispatched_upto, prev_window, seeded_from>>

envVars == <<chain_height, chain_log>>
cycleVars == <<latest_block, start_block, block_num, from_block, to_block,
               events>>
handlerVars == <<processed_events, sink, outcome, last_event, calls>>
histVars == <<handed, seed, windows, fetch_fault, cycle_fault,
              save_faulted, old_file, dispatched_upto, prev_window,
              seeded_from>>

Min(a, b) == IF a < b THEN a ELSE b

Max(a, b) == IF a > b THEN a ELSE b

(***************************************************************************)
(* animal_sighting.py: tables and get_sighting_probability                 *)
(***************************************************************************)

\* A str is a sequence of one-character strings, so that lower() and
\* strip() act on its characters.
Letters ==
    <<"a", "b", "c", "d", "e", "f", "g", "h", "i", "j", "k", "l", "m",
      "n", "o", "p", "q", "r", "s", "t", "u", "v", "w", "x", "y", "z">>

Capitals ==
    <<"A", "B", "C", "D", "E", "F", "G", "H", "I", "J", "K", "L", "M",
      "N", "O", "P", "Q", "R", "S", "T", "U", "V", "W", "X", "Y", "Z">>

\* Characters str.strip() removes.
Whitespace == {" ", "\t", "\n"}

\* str.lower() on one character and on a str.
LowerChar(c) ==
    IF \E i \in 1..Len(Capitals) : Capitals[i] = c
       THEN Letters[CHOOSE i \in 1..Len(Capitals) : Capitals[i] = c]
       ELSE c

Lower(str) == [i \in 1..Len(str) |-> LowerChar(str[i])]

\* str.upper(), used to build the inputs.
UpperChar(c) ==
    IF \E i \in 1..Len(Letters) : Letters[i] = c
       THEN Capitals[CHOOSE i \in 1..Len(Letters) : Letters[i] = c]
       ELSE c

Upper(str) == [i \in 1..Len(str) |-> UpperChar(str[i])]

RECURSIVE LStrip(_)
LStrip(str) ==
    IF str # <<>> /\ Head(str) \in Whitespace THEN LStrip(Tail(str)) ELSE str

RECURSIVE RStrip(_)
RStrip(str) ==
    IF str # <<>> /\ str[Len(str)] \in Whitespace
       THEN RStrip(SubSeq(str, 1, Len(str) - 1))
       ELSE str

\* str.strip().
Strip(str) == RStrip(LStrip(str))

\* Mutant of AnimalKey: the strip() of line 67 is missing.
AnimalKey_NoStrip(animal_name) == Lower(animal_name)

\* Line 67.
AnimalKey(animal_name) == Strip(Lower(animal_name))

lion == <<"l", "i", "o", "n">>
elephant == <<"e", "l", "e", "p", "h", "a", "n", "t">>
giraffe == <<"g", "i", "r", "a", "f", "f", "e">>
zebra == <<"z", "e", "b", "r", "a">>
rhino == <<"r", "h", "i", "n", "o">>
leopard == <<"l", "e", "o", "p", "a", "r", "d">>
hippo == <<"h", "i", "p", "p", "o">>

\* Lines 14-22.
BASE_PROBABILITIES ==
    (lion :> 30) @@ (elephant :> 60) @@ (giraffe :> 55) @@ (zebra :> 70)
        @@ (rhino :> 15) @@ (leopard :> 10) @@ (hippo :> 40)

\* Lines 5-10: the values of the members of WeatherCondition.
WeatherCondition == {"sunny", "rainy", "cloudy", "night"}

\* Lines 25-51, keyed by the member's value.
WEATHER_MODIFIERS ==
    [w \in WeatherCondition |->
        CASE w = "sunny" ->
               (lion :> -5) @@ (elephant :> 5) @@ (hippo :> 15)
                   @@ (leopard :> -8)
          [] w = "rainy" ->
               (lion :> -10) @@ (elephant :> -5) @@ (rhino :> 10)
                   @@ (hippo :> -10) @@ (zebra :> -15)
          [] w = "cloudy" ->
               (lion :> 15) @@ (rhino :> 5) @@ (leopard :> 5)
          [] w = "night" ->
               (lion :> 25) @@ (rhino :> 15) @@ (leopard :> 30)
                   @@ (elephant :> -20) @@ (giraffe :> -20)]

\* Lines 73-77: WeatherCondition(weather), or None on ValueError.
ToWeatherCondition(weather) ==
    IF weather \in WeatherCondition THEN weather ELSE "None"

\* Lines 79-81.
Modifier(animal_key, weather) ==
    LET weather_condition == ToWeatherCondition(weather) IN
    IF weather_condition # "None"
          /\ weather_condition \in DOMAIN WEATHER_MODIFIERS
          /\ animal_key \in DOMAIN WEATHER_MODIFIERS[weather_condition]
       THEN WEATHER_MODIFIERS[weather_condition][animal_key]
       ELSE 0

\* A float with two decimals, as hundredths.
Float(hundredths) == [num |-> hundredths, den |-> 100]

\* Lines 67-88.
get_sighting_probability(animal_name, weather) ==
    LET animal_key == AnimalKey(animal_name) IN
    IF animal_key \notin DOMAIN BASE_PROBABILITIES
       THEN Float(0)
       ELSE LET final_prob ==
                    BASE_PROBABILITIES[animal_key]
                        + Modifier(animal_key, weather)
                clamped_prob == Max(0, Min(100, final_prob))
            IN  Float(clamped_prob)

\* Words the animal names are built from: the seven keys, a word that is
\* no key and the empty word.
Words ==
    {lion, elephant, giraffe, zebra, rhino, leopard, hippo,
     <<"t", "i", "g", "e", "r">>, <<>>}

\* The spellings of a word that are passed as animal_name.
Spellings(w) ==
    {w, Upper(w), <<" ">> \o w, w \o <<" ", "\n">>,
     <<"\t">> \o Upper(w) \o <<" ">>,
     IF w = <<>> THEN w ELSE <<Head(w), " ">> \o Tail(w)}

AnimalNames == UNION {Spellings(w) : w \in Words}

\* Values passed as weather: the four valid ones and three that
\* WeatherCondition() rejects.
WeatherInputs == WeatherCondition \cup {"SUNNY", "snowy", ""}

\* No call of get_sighting_probability has been made.
NoSighting == [animal_name |-> <<>>, weather |-> "", result |-> "none"]

(***************************************************************************)
(* Data                                                                    *)
(***************************************************************************)

\* EventListener.state: a dict whose last_processed_block is an int, or
\* (loaded from a file such as {"last_processed_block": "x"}) not a number.
IntState(n) == [type |-> "int", last_processed_block |-> n]
NonIntState == [type |-> "str", last_processed_block |-> 0]

\* Content of the state file: absent; not JSON at all (empty or cut short);
\* JSON without the last_processed_block key; or a record json.dump wrote.
FileAbsent == [kind |-> "absent", doc |-> IntState(0)]
FileGarbage == [kind |-> "garbage", doc |-> IntState(0)]
FileNoKey == [kind |-> "nokey", doc |-> IntState(0)]
FileRecord(s) == [kind |-> "record", doc |-> s]

InitialFiles ==
    {FileAbsent, FileGarbage, FileNoKey, FileRecord(NonIntState)}
        \cup {FileRecord(IntState(n)) : n \in 0..MaxHeight}

\* A decoded log.  missing names the key whose lookup raises in
\* process_event ("none": every key of the ABI of lines 33-73 is there).
Event(tx, idx, h, dest, miss) ==
    [transactionHash |-> tx, logIndex |-> idx, blockNumber |-> h,
     destinationChainId |-> dest, missing |-> miss]

MissingKeys ==
    {"none", "transactionHash", "args", "destinationChainId", "amount",
     "nonce"}

\* What block h may hold: nothing, a deposit for the destination chain, or a
\* log that process_event cannot read.  The block's one transaction is h.
BlockChoices(h) ==
    {<<>>,
     <<Event(h, 0, h, DESTINATION_CHAIN_ID, "none")>>,
     <<Event(h, 0, h, DESTINATION_CHAIN_ID, "args")>>}

\* Events the handler-only specification feeds to process_event.
HandlerEvents ==
    {Event(tx, 0, tx, dest, miss) :
        tx \in 1..2, dest \in {DESTINATION_CHAIN_ID, SOURCE_CHAIN_ID},
        miss \in MissingKeys}

RECURSIVE LogsIn(_, _, _)
\* get_all_entries for the filter [from, to]: the logs in block order.
LogsIn(log, from, to) ==
    IF from > to THEN <<>> ELSE log[from] \o LogsIn(log, from + 1, to)

SeqToSet(s) == {s[i] : i \in 1..Len(s)}

RECURSIVE CountOf(_, _)
\* How many lines of the sink equal x.
CountOf(x, s) ==
    IF s = <<>> THEN 0
    ELSE (IF Head(s) = x THEN 1 ELSE 0) + CountOf(x, Tail(s))

\* The log line 248 names the source transaction of a dispatched action.
SourceTxLine(tx) == <<"source_tx", tx>>
Dispatches(tx) == CountOf(SourceTxLine(tx), sink)


NoEvent == Event(0, 0, 0, 0, "none")

(***************************************************************************)
(* CrossChainEventHandler.process_event                                    *)
(***************************************************************************)

\* Mutant of HandleOutcome: the destination check of line 239 is missing.
HandleOutcome_NoChainCheck(e, seen) ==
    IF e.missing = "transactionHash" THEN "Failed"
    ELSE IF e.transactionHash \in seen THEN "SkippedDuplicate"
    ELSE IF e.missing \in {"args", "destinationChainId", "amount", "nonce"}
        THEN "Failed"
    ELSE "Dispatched"

\* Where the call ends, for an event e and the dedup set seen.
HandleOutcome(e, seen) ==
    IF e.missing = "transactionHash" THEN "Failed"                \* line 229
    ELSE IF e.transactionHash \in seen THEN "SkippedDuplicate"    \* line 230
    ELSE IF e.missing \in {"args", "destinationChainId"}
        THEN "Failed"                                        \* lines 234, 239
    ELSE IF e.destinationChainId # DESTINATION_CHAIN_ID
        THEN "SkippedWrongChain"                                  \* line 239
    ELSE IF e.missing \in {"amount", "nonce"} THEN "Failed"  \* lines 247, 248
    ELSE "Dispatched"

\* The [SIMULATION] lines the call logs (246, 247, 248), in order: the
\* f-string of a line is evaluated before the line is logged.
LoggedLines(e, seen) ==
    IF HandleOutcome(e, seen) = "Dispatched"
        THEN <<(<<"action_required">>), (<<"mint_unlock">>),
               SourceTxLine(e.transactionHash)>>
    ELSE IF HandleOutcome(e, seen) = "Failed" /\ e.missing = "nonce"
        THEN <<(<<"action_required">>), (<<"mint_unlock">>)>>
    ELSE IF HandleOutcome(e, seen) = "Failed" /\ e.missing = "amount"
        THEN <<(<<"action_required">>)>>
    ELSE <<>>

\* Mutant of MarkProcessed: line 251 sits in a finally clause.
MarkProcessed_Always(e, seen) ==
    IF e.missing = "transactionHash" THEN seen
    ELSE seen \cup {e.transactionHash}

\* Mutant of MarkProcessed: line 251 sits before the test of line 239.
MarkProcessed_BeforeChainCheck(e, seen) ==
    IF HandleOutcome(e, seen) \in {"Dispatched", "SkippedWrongChain"}
        THEN seen \cup {e.transactionHash}
        ELSE seen

\* Mutant of MarkProcessed: line 251 is missing.
MarkProcessed_Never(e, seen) == seen

\* The dedup set after the call (line 251).
MarkProcessed(e, seen) ==
    IF HandleOutcome(e, seen) = "Dispatched"
        THEN seen \cup {e.transactionHash}
        ELSE seen

ProcessEvent(e) ==
    /\ outcome' = HandleOutcome(e, processed_events)
    /\ sink' = sink \o LoggedLines(e, processed_events)
    /\ processed_events' = MarkProcessed(e, processed_events)
    /\ last_event' = e
    /\ calls' = calls + 1

(***************************************************************************)
(* main() and EventListener.__init__                                       *)
(***************************************************************************)

Running(p) == pc = p /\ ~crashed

LoopPcs == {"poll", "fetch", "dispatch", "save_open", "save_dump", "sleep"}
Terminal == {"exited", "stopped"}

\* Mutant of AfterConnect: the raise of line 123 is missing.
AfterConnect_NoRaise(ok, next) == next

\* Where main() goes after a connector is built: connect() re-raises at
\* line 123 and the except clause of line 367 ends main().
AfterConnect(ok, next) == IF ok THEN next ELSE "exited"

\* BlockchainConnector(SOURCE_CHAIN_RPC_URL, ...): connect() raises or not.
ConnectSource ==
    /\ Running("main")
    /\ \E ok \in BOOLEAN :
          /\ connected' = IF ok THEN connected \cup {"source"} ELSE connected
          /\ pc' = AfterConnect(ok, "connect_dest")
    /\ UNCHANGED <<sighting, shutting_down, crashed, envVars, file, state,
                   cycleVars, handlerVars, histVars>>

\* BlockchainConnector(DESTINATION_CHAIN_RPC_URL, ...).
ConnectDest ==
    /\ Running("connect_dest")
    /\ \E ok \in BOOLEAN :
          /\ connected' = IF ok THEN connected \cup {"dest"} ELSE connected
          /\ pc' = AfterConnect(ok, "handlers")
    /\ UNCHANGED <<sighting, shutting_down, crashed, envVars, file, state,
                   cycleVars, handlerVars, histVars>>

\* BridgeContractHandler(...), CrossChainEventHandler(...) and the first
\* lines of EventListener.__init__.
InitHandlers ==
    /\ Running("handlers")
    /\ processed_events' = {}
    /\ state' = IntState(0)
    /\ pc' = "load_state"
    /\ UNCHANGED <<sighting, connected, shutting_down, crashed, envVars, file, cycleVars, sink,
                   outcome, last_event, calls, histVars>>

\* What get_latest_block_number returns when it does not raise (line 138).
ObservedHeights == {chain_height}

\* _load_state up to the first height query.
LoadState ==
    /\ Running("load_state")
    /\ \/ /\ file.kind = "absent"                          \* line 278
          /\ pc' = "seed_else"
          /\ UNCHANGED <<state, seed, seeded_from>>
       \/ /\ file.kind # "absent"                          \* open raises
          /\ pc' = "seed_except"
          /\ UNCHANGED <<state, seed, seeded_from>>
       \/ /\ file.kind = "garbage"                         \* JSONDecodeError
          /\ pc' = "seed_except"
          /\ UNCHANGED <<state, seed, seeded_from>>
       \/ /\ file.kind = "nokey"                           \* KeyError, 277
          /\ pc' = "exited"
          /\ UNCHANGED <<state, seed, seeded_from>>
       \/ /\ file.kind = "record"
          /\ state' = file.doc
          /\ seed' = file.doc
          /\ seeded_from' = "file"
          /\ pc' = "poll"
    /\ UNCHANGED prev_window
    /\ UNCHANGED <<sighting, connected, shutting_down, crashed, envVars, file, cycleVars,
                   handlerVars, handed, windows, fetch_fault,
                   cycle_fault, save_faulted, old_file, dispatched_upto>>

\* Line 281.  A ConnectionError is an IOError and is caught by line 282.
SeedElse ==
    /\ Running("seed_else")
    /\ \/ \E h \in ObservedHeights :
             /\ state' = IntState(h - 1)
             /\ seed' = IntState(h - 1)
             /\ seeded_from' = "chain"
             /\ pc' = "poll"
       \/ /\ pc' = "seed_except"
          /\ UNCHANGED <<state, seed, seeded_from>>
       \/ /\ pc' = "exited"                                \* not an IOError
          /\ UNCHANGED <<state, seed, seeded_from>>
    /\ UNCHANGED prev_window
    /\ UNCHANGED <<sighting, connected, shutting_down, crashed, envVars, file, cycleVars,
                   handlerVars, handed, windows, fetch_fault,
                   cycle_fault, save_faulted, old_file, dispatched_upto>>

\* Line 284: a fault here leaves __init__ and main() logs it and returns.
SeedExcept ==
    /\ Running("seed_except")
    /\ \/ \E h \in ObservedHeights :
             /\ state' = IntState(h - 1)
             /\ seed' = IntState(h - 1)
             /\ seeded_from' = "chain"
             /\ pc' = "poll"
       \/ /\ pc' = "exited"
          /\ UNCHANGED <<state, seed, seeded_from>>
    /\ UNCHANGED prev_window
    /\ UNCHANGED <<sighting, connected, shutting_down, crashed, envVars, file, cycleVars,
                   handlerVars, handed, windows, fetch_fault,
                   cycle_fault, save_faulted, old_file, dispatched_upto>>

(***************************************************************************)
(* EventListener.run and _run_cycle                                        *)
(***************************************************************************)

\* Mutant of NothingToDo: the test of line 314 is off by one.
NothingToDo_OffByOne(start, latest) == start > latest + 1

\* Line 314.
NothingToDo(start, latest) == start > latest

\* Mutant of StartBlock: the cycle starts at the checkpoint itself.
StartBlock_AtCheckpoint(s) == s.last_processed_block

\* Line 312.
StartBlock(s) == s.last_processed_block + 1

\* Lines 311-316 and the first value of the range of line 321.  A fault of
\* the height query, or line 312 on a checkpoint that is not a number, ends
\* the cycle in the except clauses of lines 338-341.
Poll ==
    /\ Running("poll")
    /\ windows' = <<>>
    /\ \/ /\ cycle_fault' = TRUE
          /\ pc' = "sleep"
          /\ UNCHANGED <<latest_block, start_block, block_num>>
       \/ \E h \in ObservedHeights :
             /\ latest_block' = h
             /\ IF state.type # "int"
                   THEN /\ cycle_fault' = TRUE
                        /\ pc' = "sleep"
                        /\ UNCHANGED <<start_block, block_num>>
                   ELSE /\ cycle_fault' = FALSE
                        /\ start_block' = StartBlock(state)
                        /\ block_num' = start_block'
                        /\ pc' = IF NothingToDo(start_block', h)
                                    THEN "sleep" ELSE "fetch"
    /\ UNCHANGED <<prev_window, seeded_from>>
    /\ UNCHANGED <<sighting, connected, shutting_down, crashed, envVars, file, state, from_block,
                   to_block, events, handlerVars, handed, seed, fetch_fault, save_faulted, old_file, dispatched_upto>>

\* Mutant of WindowEnd: the min of line 323 is missing.
WindowEnd_NoClamp(from, latest) == from + BLOCK_PROCESSING_CHUNK_SIZE - 1

\* Line 323.
WindowEnd(from, latest) ==
    Min(from + BLOCK_PROCESSING_CHUNK_SIZE - 1, latest)

\* What fetch_events returns: the logs, or [] from each except clause.
FetchResult(log, from, to, fault) ==
    IF fault = "none" THEN LogsIn(log, from, to) ELSE <<>>

\* The except clauses of lines 193-203; a ConnectionError is an Exception
\* and lands in the last one.
FetchFaults ==
    {"none", "BlockNotFound", "ReadTimeout", "ConnectionError", "Exception"}

\* Lines 322-329: the window of this iteration and fetch_events on it.
Fetch ==
    /\ Running("fetch")
    /\ from_block' = block_num
    /\ to_block' = WindowEnd(block_num, latest_block)
    /\ \E fault \in FetchFaults :
          /\ fetch_fault' = fault
          /\ events' = FetchResult(chain_log, from_block', to_block', fault)
          /\ cycle_fault' = (cycle_fault \/ fault # "none")
    /\ windows' = Append(windows, <<from_block', to_block'>>)
    /\ prev_window' = <<from_block', to_block'>>
    /\ UNCHANGED seeded_from
    /\ pc' = "dispatch"
    /\ UNCHANGED <<sighting, connected, shutting_down, crashed, envVars, file, state, latest_block,
                   start_block, block_num, handlerVars, handed, seed,
                   save_faulted, old_file, dispatched_upto>>

\* One iteration of the loop of lines 331-332.
Dispatch ==
    /\ Running("dispatch")
    /\ events # <<>>
    /\ ProcessEvent(Head(events))
    /\ events' = Tail(events)
    /\ handed' = handed \cup {Head(events)}
    /\ dispatched_upto' =
          IF outcome' = "Dispatched" /\ to_block > dispatched_upto
             THEN to_block
             ELSE dispatched_upto
    /\ UNCHANGED <<prev_window, seeded_from>>
    /\ UNCHANGED <<sighting, connected, pc, shutting_down, crashed, envVars, file, state,
                   latest_block, start_block, block_num, from_block, to_block,
                   seed, windows, fetch_fault, cycle_fault,
                   save_faulted, old_file>>

\* Mutant of CheckpointAfter: line 335 stores the window's lower bound.
CheckpointAfter_FromBlock(to) == IntState(from_block)

\* Mutant of CheckpointAfter: line 335 is missing.
CheckpointAfter_Unchanged(to) == state

\* Mutant of CheckpointAfter: line 335 stores one block less.
CheckpointAfter_OffByOne(to) == IntState(to - 1)

\* The value line 335 stores.
CheckpointAfter(to) == IntState(to)

\* Line 335, and the call of _save_state of line 336.
Checkpoint ==
    /\ Running("dispatch")
    /\ events = <<>>
    /\ state' = CheckpointAfter(to_block)
    /\ old_file' = file
    /\ fetch_fault' = "none"
    /\ pc' = "save_open"
    /\ UNCHANGED <<prev_window, seeded_from>>
    /\ UNCHANGED <<sighting, connected, shutting_down, crashed, envVars, file, cycleVars,
                   handlerVars, handed, seed, windows, cycle_fault,
                   save_faulted, dispatched_upto>>

\* Mutant of AfterSavePc: the interrupt does not leave the loop of run().
AfterSavePc_KeepsLooping ==
    IF block_num + BLOCK_PROCESSING_CHUNK_SIZE < latest_block + 1
        THEN "fetch"
        ELSE "sleep"

\* Where control goes when _save_state returns: out of run() after the
\* finally clause, else to the next value of the range of line 321.
AfterSavePc ==
    IF shutting_down THEN "stopped"
    ELSE IF block_num + BLOCK_PROCESSING_CHUNK_SIZE < latest_block + 1
        THEN "fetch"
        ELSE "sleep"

\* Mutant of AfterSaveBlockNum: the range of line 321 steps one too far.
AfterSaveBlockNum_StepTooFar ==
    IF ~shutting_down
       /\ block_num + BLOCK_PROCESSING_CHUNK_SIZE < latest_block + 1
        THEN block_num + BLOCK_PROCESSING_CHUNK_SIZE + 1
        ELSE block_num

\* The loop variable of line 321 after the chunk.
AfterSaveBlockNum ==
    IF ~shutting_down
       /\ block_num + BLOCK_PROCESSING_CHUNK_SIZE < latest_block + 1
        THEN block_num + BLOCK_PROCESSING_CHUNK_SIZE
        ELSE block_num

\* What open(STATE_FILE_PATH, 'w') leaves on disk: an empty file.
Truncated == FileGarbage

\* Line 289: open for writing truncates the file, or raises IOError.
SaveOpen ==
    /\ Running("save_open")
    /\ \/ /\ file' = Truncated
          /\ pc' = "save_dump"
          /\ UNCHANGED <<block_num, save_faulted, cycle_fault, old_file>>
       \/ /\ save_faulted' = TRUE
          /\ cycle_fault' = TRUE
          /\ pc' = AfterSavePc
          /\ block_num' = AfterSaveBlockNum
          /\ UNCHANGED <<file, old_file>>
    /\ UNCHANGED <<prev_window, seeded_from>>
    /\ UNCHANGED <<sighting, connected, shutting_down, crashed, envVars, state, latest_block,
                   start_block, from_block, to_block, events, handlerVars,
                   handed, seed, windows, fetch_fault, dispatched_upto>>

\* Line 290 and the close of the with block: the document reaches the disk,
\* or the write raises IOError and the file stays as open left it.
SaveDump ==
    /\ Running("save_dump")
    /\ \/ /\ file' = FileRecord(state)
          /\ UNCHANGED <<save_faulted, cycle_fault>>
       \/ /\ save_faulted' = TRUE
          /\ cycle_fault' = TRUE
          /\ UNCHANGED file
    /\ old_file' = file'
    /\ pc' = AfterSavePc
    /\ block_num' = AfterSaveBlockNum
    /\ UNCHANGED <<prev_window, seeded_from>>
    /\ UNCHANGED <<sighting, connected, shutting_down, crashed, envVars, state, latest_block,
                   start_block, from_block, to_block, events, handlerVars,
                   handed, seed, windows, fetch_fault, dispatched_upto>>

\* Line 301.  The locals of the cycle that returned are gone.
Sleep ==
    /\ Running("sleep")
    /\ pc' = "poll"
    /\ latest_block' = 0
    /\ start_block' = 0
    /\ block_num' = 0
    /\ from_block' = 0
    /\ to_block' = 0
    /\ events' = <<>>
    /\ windows' = <<>>
    /\ cycle_fault' = FALSE
    /\ UNCHANGED <<prev_window, seeded_from>>
    /\ UNCHANGED <<sighting, connected, shutting_down, crashed, envVars, file, state,
                   handlerVars, handed, seed, fetch_fault, save_faulted,
                   old_file, dispatched_upto>>

\* KeyboardInterrupt anywhere inside the loop of run(): no except clause of
\* _run_cycle, fetch_events or process_event catches it (they catch
\* Exception), so control goes to line 302 and then to the finally clause,
\* and the locals of the interrupted cycle are gone.
StopSignal ==
    /\ pc \in LoopPcs
    /\ ~crashed
    /\ ~shutting_down
    /\ shutting_down' = TRUE
    /\ old_file' = file
    /\ pc' = "save_open"
    /\ latest_block' = 0
    /\ start_block' = 0
    /\ block_num' = 0
    /\ from_block' = 0
    /\ to_block' = 0
    /\ events' = <<>>
    /\ windows' = <<>>
    /\ fetch_fault' = "none"
    /\ cycle_fault' = FALSE
    /\ UNCHANGED <<prev_window, seeded_from>>
    /\ UNCHANGED <<sighting, connected, crashed, envVars, file, state, handlerVars,
                   handed, seed, save_faulted, dispatched_upto>>

(***************************************************************************)
(* Environment                                                             *)
(***************************************************************************)

\* The process is killed (or the machine stops) wherever it is.
Crash ==
    /\ ~crashed
    /\ pc \notin Terminal
    /\ crashed' = TRUE
    /\ UNCHANGED <<sighting, connected, pc, shutting_down, envVars, file, state,
                   cycleVars, handlerVars, histVars>>

\* The source chain mines block chain_height + 1.  The logs of a mined
\* block never change and the process sees the height only through
\* get_latest_block_number, so a block mined at any moment since the last
\* height query is mined here, right before the next one.
ChainAdvance ==
    /\ ~crashed
    /\ pc \in {"seed_else", "seed_except", "poll"}
    /\ chain_height < MaxHeight
    /\ chain_height' = chain_height + 1
    /\ \E b \in BlockChoices(chain_height + 1) :
          chain_log' = [chain_log EXCEPT ![chain_height + 1] = b]
    /\ UNCHANGED <<sighting, connected, pc, shutting_down, crashed, file, state, cycleVars,
                   handlerVars, histVars>>

Init ==
    /\ pc = "main"
    /\ shutting_down = FALSE
    /\ crashed = FALSE
    /\ connected = {}
    /\ sighting = NoSighting
    /\ chain_height = 0
    /\ chain_log = [h \in 0..MaxHeight |-> <<>>]
    /\ file \in InitialFiles
    /\ state = IntState(0)
    /\ latest_block = 0
    /\ start_block = 0
    /\ block_num = 0
    /\ from_block = 0
    /\ to_block = 0
    /\ events = <<>>
    /\ processed_events = {}
    /\ sink = <<>>
    /\ outcome = "None"
    /\ last_event = NoEvent
    /\ calls = 0
    /\ handed = {}
    /\ seed = IntState(0)
    /\ windows = <<>>
    /\ fetch_fault = "none"
    /\ cycle_fault = FALSE
    /\ save_faulted = FALSE
    /\ old_file = file
    /\ dispatched_upto = -1
    /\ prev_window = <<>>
    /\ seeded_from = "none"

Next ==
    \/ ConnectSource
    \/ ConnectDest
    \/ InitHandlers
    \/ LoadState
    \/ SeedElse
    \/ SeedExcept
    \/ Poll
    \/ Fetch
    \/ Dispatch
    \/ Checkpoint
    \/ SaveOpen
    \/ SaveDump
    \/ Sleep
    \/ StopSignal
    \/ Crash
    \/ ChainAdvance

Spec == Init /\ [][Next]_vars

(***************************************************************************)
(* process_event on its own: any sequence of calls on one handler          *)
(***************************************************************************)

InitHandler ==
    /\ pc = "handler"
    /\ shutting_down = FALSE
    /\ crashed = FALSE
    /\ connected = {"source", "dest"}
    /\ sighting = NoSighting
    /\ chain_height = 0
    /\ chain_log = [h \in 0..MaxHeight |-> <<>>]
    /\ file = FileAbsent
    /\ state = IntState(0)
    /\ latest_block = 0
    /\ start_block = 0
    /\ block_num = 0
    /\ from_block = 0
    /\ to_block = 0
    /\ events = <<>>
    /\ processed_events = {}
    /\ sink = <<>>
    /\ outcome = "None"
    /\ last_event = NoEvent
    /\ calls = 0
    /\ handed = {}
    /\ seed = IntState(0)
    /\ windows = <<>>
    /\ fetch_fault = "none"
    /\ cycle_fault = FALSE
    /\ save_faulted = FALSE
    /\ old_file = file
    /\ dispatched_upto = -1
    /\ prev_window = <<>>
    /\ seeded_from = "none"

HandleCall ==
    /\ pc = "handler"
    /\ calls < MaxCalls
    /\ \E e \in HandlerEvents : ProcessEvent(e)
    /\ UNCHANGED <<sighting, connected, pc, shutting_down, crashed, envVars, file, state,
                   cycleVars, histVars>>

NextHandler == HandleCall

SpecHandler == InitHandler /\ [][NextHandler]_vars

(***************************************************************************)
(* get_sighting_probability alone                                          *)
(***************************************************************************)

InitSighting ==
    /\ pc = "sighting_call"
    /\ sighting \in [animal_name : AnimalNames, weather : WeatherInputs,
                    result : {"none"}]
    /\ connected = {}
    /\ shutting_down = FALSE
    /\ crashed = FALSE
    /\ chain_height = 0
    /\ chain_log = [h \in 0..MaxHeight |-> <<>>]
    /\ file = FileAbsent
    /\ state = IntState(0)
    /\ latest_block = 0
    /\ start_block = 0
    /\ block_num = 0
    /\ from_block = 0
    /\ to_block = 0
    /\ events = <<>>
    /\ processed_events = {}
    /\ sink = <<>>
    /\ outcome = "None"
    /\ last_event = NoEvent
    /\ calls = 0
    /\ handed = {}
    /\ seed = IntState(0)
    /\ windows = <<>>
    /\ fetch_fault = "none"
    /\ cycle_fault = FALSE
    /\ save_faulted = FALSE
    /\ old_file = file
    /\ dispatched_upto = -1
    /\ prev_window = <<>>
    /\ seeded_from = "none"

\* One call of get_sighting_probability on the arguments drawn.
GetSightingProbability ==
    /\ pc = "sighting_call"
    /\ sighting' =
          [sighting EXCEPT
              !.result = get_sighting_probability(sighting.animal_name,
                                                  sighting.weather)]
    /\ pc' = "sighting_returned"
    /\ UNCHANGED <<connected, shutting_down, crashed, envVars, file, state,
                   cycleVars, handlerVars, histVars>>

NextSighting == GetSightingProbability

SpecSighting == InitSighting /\ [][NextSighting]_vars

(***************************************************************************)
(* Properties                                                              *)
(***************************************************************************)

\* C1: inside the polling loop every change of the in-memory checkpoint
\* replaces a number by a number that is not lower, and that is at most the
\* latest height the cycle making the change observed.
C1_CheckpointMonotoneBounded ==
    [][(pc \in LoopPcs /\ state' # state) =>
          /\ state.type = "int"
          /\ state'.type = "int"
          /\ state'.last_processed_block >= state.last_processed_block
          /\ state'.last_processed_block <= latest_block]_vars

\* A cycle has moved the checkpoint forward, up to the height it observed.
C1_Witness ==
    /\ pc = "save_open"
    /\ ~shutting_down
    /\ ~crashed
    /\ state.last_processed_block = latest_block
    /\ state.last_processed_block > seed.last_processed_block + 1

\* C2: no source transaction id gets a second dispatch; a call carrying an
\* id that was dispatched before ends as a duplicate and logs nothing, and
\* a call with a complete event for the destination chain whose id was not
\* dispatched before dispatches it.
C2_DispatchedOnce ==
    /\ [](\A e \in HandlerEvents : Dispatches(e.transactionHash) <= 1)
    /\ [][calls' = calls + 1 =>
            /\ (/\ last_event'.missing # "transactionHash"
                /\ Dispatches(last_event'.transactionHash) >= 1)
                   => (outcome' = "SkippedDuplicate" /\ sink' = sink)
            /\ (/\ last_event'.missing = "none"
                /\ last_event'.destinationChainId = DESTINATION_CHAIN_ID
                /\ Dispatches(last_event'.transactionHash) = 0)
                   => /\ outcome' = "Dispatched"
                      /\ CountOf(SourceTxLine(last_event'.transactionHash),
                                 sink') = 1]_vars

\* An id was dispatched by one call and a later call with it was rejected.
C2_Witness ==
    /\ pc = "handler"
    /\ calls >= 2
    /\ outcome = "SkippedDuplicate"
    /\ last_event.destinationChainId = DESTINATION_CHAIN_ID
    /\ last_event.missing = "none"
    /\ Dispatches(last_event.transactionHash) = 1

\* C3: while the chunk in hand is one whose fetch failed, no step changes
\* the checkpoint.
C3_NoAdvanceAfterFetchFault ==
    [][(pc = "dispatch" /\ fetch_fault # "none") => state' = state]_vars

\* C4: every log the chain holds at a height above the seed checkpoint and
\* at or below the checkpoint has been passed to process_event.
C4_AllHandedUpToCheckpoint ==
    (pc \in LoopPcs \cup {"stopped"} /\ state.type = "int"
        /\ seed.type = "int") =>
        \A h \in 0..MaxHeight :
            (seed.last_processed_block < h
                /\ h <= state.last_processed_block) =>
                SeqToSet(chain_log[h]) \subseteq handed

\* C5: the windows of a cycle start at start_block, each but the last is
\* BLOCK_PROCESSING_CHUNK_SIZE wide and the last is no wider, each begins
\* right after the one before, and when the cycle has returned the last one
\* ends at latest_block; a cycle that returned without a window either
\* failed before the loop or had start_block above latest_block.
C5_WindowsPartition ==
    /\ \A i \in 1..Len(windows) :
          /\ windows[i][1] <= windows[i][2]
          /\ windows[i][2] - windows[i][1] + 1 <= BLOCK_PROCESSING_CHUNK_SIZE
          /\ windows[i][2] <= latest_block
          /\ i = 1 => windows[i][1] = start_block
          /\ i > 1 =>
                /\ windows[i][1] = windows[i - 1][2] + 1
                /\ windows[i - 1][2] - windows[i - 1][1] + 1
                      = BLOCK_PROCESSING_CHUNK_SIZE
    /\ (pc = "sleep" /\ windows # <<>>) =>
          windows[Len(windows)][2] = latest_block
    /\ (pc = "sleep" /\ windows = <<>>) =>
          (cycle_fault \/ start_block > latest_block)

\* A cycle returned after a full window and a last, narrower one.
C5_Witness ==
    /\ pc = "sleep"
    /\ Len(windows) = 2
    /\ windows[2][2] - windows[2][1] + 1 < BLOCK_PROCESSING_CHUNK_SIZE
    /\ windows[2][2] = latest_block

\* C6: a cycle that saw a height above the checkpoint and met no fault
\* returns with the in-memory and the saved checkpoint at that height.
C6_CycleReachesLatest ==
    (pc = "sleep" /\ ~crashed /\ ~cycle_fault /\ start_block <= latest_block)
        => /\ state = IntState(latest_block)
           /\ file = FileRecord(IntState(latest_block))

\* Such a cycle, of two chunks.
C6_Witness ==
    /\ pc = "sleep"
    /\ ~cycle_fault
    /\ Len(windows) = 2
    /\ start_block <= latest_block
    /\ state = IntState(latest_block)
    /\ file = FileRecord(IntState(latest_block))

\* C7: a process killed inside _save_state leaves the file with the
\* content it had when _save_state was entered or with the new document.
C7_AtomicSave ==
    (crashed /\ pc \in {"save_open", "save_dump"})
        => file \in {old_file, FileRecord(state)}

\* C8: when run() has stopped and every save succeeded, no event was
\* dispatched from a window that ends above the saved checkpoint.
C8_NoChunkLeftDangling ==
    (pc = "stopped" /\ ~save_faulted /\ file.kind = "record"
        /\ file.doc.type = "int")
        => dispatched_upto <= file.doc.last_processed_block

\* C9: the step that takes the stop signal starts the final _save_state;
\* from then on nothing is fetched or handled and the checkpoint stays, the
\* only steps are the two of that one save and the stop, a save that met no
\* IOError leaves the in-memory checkpoint on disk, and until the process
\* has stopped the next step of the save can be taken.
C9_ShutdownSavesAndStops ==
    /\ []((shutting_down /\ ~crashed /\ pc # "stopped")
             => ENABLED (SaveOpen \/ SaveDump))
    /\ [][/\ (~shutting_down /\ shutting_down') => pc' = "save_open"
          /\ shutting_down =>
                /\ shutting_down'
                /\ handed' = handed
                /\ sink' = sink
                /\ calls' = calls
                /\ windows' = windows
                /\ state' = state
                /\ pc' # pc =>
                      <<pc, pc'>> \in {<<"save_open", "save_dump">>,
                                       <<"save_open", "stopped">>,
                                       <<"save_dump", "stopped">>}
                /\ (pc = "save_dump" /\ pc' = "stopped" /\ ~cycle_fault')
                      => file' = FileRecord(state)]_vars

\* The loop was stopped after it had handled events, and the final save
\* put the checkpoint on disk.
C9_Witness ==
    /\ pc = "stopped"
    /\ shutting_down
    /\ handed # {}
    /\ state.last_processed_block > seed.last_processed_block
    /\ file = FileRecord(state)

\* C10: _load_state on a file that is absent, or that holds anything but a
\* record with an integer last_processed_block, goes on to seed the
\* checkpoint from the chain height.
C10_SeedsWhenFileUnusable ==
    [][(/\ pc = "load_state"
        /\ pc' # "load_state"
        /\ ~(file.kind = "record" /\ file.doc.type = "int"))
          => pc' \in {"seed_else", "seed_except"}]_vars

\* The state file holds a record with an integer checkpoint.
IntactFile == file.kind = "record" /\ file.doc.type = "int"

C12_WrongChainSkipped ==
    [][(/\ calls' = calls + 1
        /\ last_event'.missing = "none"
        /\ last_event'.destinationChainId # DESTINATION_CHAIN_ID)
          => /\ outcome' = "SkippedWrongChain"
             /\ sink' = sink
             /\ processed_events' = processed_events]_vars

\* C12 as amended: such a call logs no action and leaves the dedup set
\* alone; it ends as skipped-wrong-chain when the event's id was not
\* dispatched before and as a duplicate when it was.
C12_WrongChainNoEffect ==
    [][(/\ calls' = calls + 1
        /\ last_event'.missing = "none"
        /\ last_event'.destinationChainId # DESTINATION_CHAIN_ID)
          => /\ outcome' =
                   IF Dispatches(last_event'.transactionHash) = 0
                      THEN "SkippedWrongChain"
                      ELSE "SkippedDuplicate"
             /\ sink' = sink
             /\ processed_events' = processed_events]_vars

\* An event for another chain was skipped by a handler whose dedup set was
\* not empty.
C12_Witness ==
    /\ pc = "handler"
    /\ outcome = "SkippedWrongChain"
    /\ last_event.missing = "none"
    /\ last_event.destinationChainId = SOURCE_CHAIN_ID
    /\ processed_events # {}
    /\ last_event.transactionHash \notin processed_events

\* C13: a cycle whose height query fails goes to sleep with the checkpoint
\* and the file as they were, and while the chunk in hand is one whose fetch
\* met a connection error the checkpoint stays where it was and the loop
\* does not end.
C13_ConnectivityFaultKeepsCheckpoint ==
    [][/\ (pc = "poll" /\ pc' # "poll" /\ ~crashed' /\ cycle_fault')
            => (pc' = "sleep" /\ state' = state /\ file' = file)
       /\ (pc = "dispatch" /\ fetch_fault = "ConnectionError")
            => (state' = state /\ pc' \notin Terminal)]_vars

\* C14: a call of the batch loop on a log that process_event cannot read
\* ends as failed, logs no source-transaction line and leaves the dedup set
\* alone, and the loop goes on with the rest of the batch; when the batch is
\* used up every log of the fetched window has been passed to process_event,
\* the checkpoint is set to the window's upper bound and the save is entered.
C14_FailedEventDoesNotStopBatch ==
    [][/\ (/\ pc = "dispatch" /\ calls' = calls + 1
           /\ Head(events).missing # "none")
            => /\ outcome' = "Failed"
               /\ processed_events' = processed_events
               /\ CountOf(SourceTxLine(Head(events).transactionHash), sink')
                      = Dispatches(Head(events).transactionHash)
               /\ events' = Tail(events)
               /\ pc' = "dispatch"
       /\ (/\ pc = "dispatch" /\ events = <<>> /\ fetch_fault = "none"
           /\ pc' # "dispatch" /\ ~shutting_down' /\ ~crashed')
            => /\ SeqToSet(LogsIn(chain_log, from_block, to_block))
                      \subseteq handed
               /\ state' = IntState(to_block)
               /\ pc' = "save_open"]_vars

\* A window of two blocks, the first holding an unreadable log and the
\* second a deposit, has been handled: the deposit is dispatched, the
\* unreadable log is not, and the window's upper bound is in the file.
C14_Witness ==
    /\ pc = "sleep" /\ ~crashed
    /\ from_block < to_block
    /\ chain_log[from_block] =
           <<Event(from_block, 0, from_block, DESTINATION_CHAIN_ID, "args")>>
    /\ chain_log[to_block] =
           <<Event(to_block, 0, to_block, DESTINATION_CHAIN_ID, "none")>>
    /\ SeqToSet(chain_log[from_block]) \subseteq handed
    /\ Dispatches(from_block) = 0
    /\ from_block \notin processed_events
    /\ Dispatches(to_block) = 1
    /\ state = IntState(to_block)
    /\ file = FileRecord(state)

\* Heights above c whose deposit has been dispatched in this run.
DispatchedAbove(c) == {h \in 0..MaxHeight : h > c /\ Dispatches(h) >= 1}

\* C15: when no save of this run has failed and the file holds a checkpoint,
\* every deposit dispatched in this run at a height above that checkpoint
\* lies in the last fetched window, which spans at most
\* BLOCK_PROCESSING_CHUNK_SIZE heights; this holds in every state, so at
\* every point at which the process can crash.
C15_RedispatchWithinOneWindow ==
    (~save_faulted /\ IntactFile) =>
        \/ DispatchedAbove(file.doc.last_processed_block) = {}
        \/ /\ prev_window # <<>>
           /\ DispatchedAbove(file.doc.last_processed_block)
                  \subseteq prev_window[1]..prev_window[2]
           /\ prev_window[2] - prev_window[1] + 1
                  <= BLOCK_PROCESSING_CHUNK_SIZE

\* The process crashed after a first chunk was saved and a deposit of the
\* next window was dispatched.
C15_Witness ==
    /\ crashed /\ ~save_faulted /\ IntactFile
    /\ seed.type = "int"
    /\ file.doc.last_processed_block > seed.last_processed_block
    /\ DispatchedAbove(file.doc.last_processed_block) # {}
    /\ DispatchedAbove(seed.last_processed_block)
           # DispatchedAbove(file.doc.last_processed_block)

\* C16: when the save after a chunk ends without the checkpoint written, the
\* checkpoint in memory is the chunk's upper bound, the file is as it was
\* when the save began, and the cycle goes on with the next chunk or, after
\* the last one, to sleep.
C16_FailedSaveKeepsOldFile ==
    [][(/\ pc \in {"save_open", "save_dump"} /\ ~shutting_down
        /\ pc' \notin {"save_open", "save_dump"} /\ ~crashed' /\ ~shutting_down'
        /\ file' # FileRecord(state))
          => /\ state' = IntState(to_block)
             /\ file' = old_file
             /\ pc' = IF to_block < latest_block THEN "fetch" ELSE "sleep"]_vars

\* C17: as long as one of the two connections is not established the
\* process is in main() before the handlers are built, or has left main();
\* the checkpoint has not been seeded from a height query, no window has been
\* fetched, process_event has not been called, nothing has been logged as
\* an action, and no step writes the state file or the checkpoint.
C17_NoLoopWithoutConnections ==
    [][(connected' # {"source", "dest"})
          => /\ pc' \in {"main", "connect_dest", "exited"}
             /\ seeded_from' = "none"
             /\ prev_window' = <<>> /\ windows' = <<>>
             /\ calls' = 0 /\ sink' = <<>>
             /\ file' = file /\ state' = state
             /\ (pc = "exited" => pc' = "exited")]_vars

\* main() ended because the destination chain could not be reached.
C17_Witness ==
    /\ pc = "exited"
    /\ connected = {"source"}

\* C18: a cycle whose height query returns a height at or below the
\* checkpoint returns at once: it goes to sleep with no window fetched, no
\* call of process_event, and the checkpoint, the file and the dedup set as
\* they were.
C18_IdleCycleDoesNothing ==
    [][(/\ pc = "poll" /\ pc' # "poll" /\ ~crashed' /\ ~shutting_down'
        /\ ~cycle_fault' /\ state.type = "int"
        /\ latest_block' <= state.last_processed_block)
          => /\ pc' = "sleep"
             /\ windows' = <<>> /\ prev_window' = prev_window
             /\ calls' = calls /\ sink' = sink
             /\ state' = state /\ file' = file
             /\ processed_events' = processed_events]_vars

\* After a cycle that dispatched a deposit, a cycle found the chain at the
\* checkpoint and went to sleep.
C18_Witness ==
    /\ pc = "sleep" /\ ~crashed /\ ~cycle_fault
    /\ windows = <<>>
    /\ state.type = "int"
    /\ latest_block = state.last_processed_block
    /\ latest_block >= 1
    /\ processed_events # {}

\* The keys of the table of base probabilities that the call's animal name
\* spells when case and surrounding whitespace are ignored: at most one.
SpelledKeys ==
    LET name == sighting.animal_name IN
    {k \in DOMAIN BASE_PROBABILITIES :
        \E i \in 1..(Len(name) + 1), j \in 0..Len(name) :
            /\ SubSeq(Lower(name), i, j) = k
            /\ \A n \in 1..Len(name) :
                  (n < i \/ n > j) => name[n] \in Whitespace}

KnownAnimal == SpelledKeys # {}

\* The modifier the tables give for the call's animal and weather: the entry
\* of the weather's table for the animal, 0 when the weather is none of the
\* four conditions or its table has no entry for the animal.
TableModifier ==
    LET k == CHOOSE k \in SpelledKeys : TRUE
        w == sighting.weather
    IN  IF w \notin {"sunny", "rainy", "cloudy", "night"} THEN 0
        ELSE IF k \notin DOMAIN WEATHER_MODIFIERS[w] THEN 0
        ELSE WEATHER_MODIFIERS[w][k]

\* Base plus modifier, in hundredths, before clamping.
Unclamped ==
    BASE_PROBABILITIES[CHOOSE k \in SpelledKeys : TRUE] + TableModifier

\* C19: the value returned by get_sighting_probability lies between 0.0 and
\* 1.0; it is 0.0 for an animal that is not in the table, and otherwise
\* base plus modifier, clamped to 0..100 and divided by 100, the modifier
\* being 0 when the weather is invalid or has no entry for the animal.
C19_ProbabilityClampedLookup ==
    (pc = "sighting_returned") =>
        /\ sighting.result.den = 100
        /\ sighting.result.num >= 0
        /\ sighting.result.num <= sighting.result.den
        /\ ~KnownAnimal => sighting.result.num = 0
        /\ KnownAnimal =>
              sighting.result.num =
                  IF Unclamped < 0 THEN 0
                  ELSE IF Unclamped > 100 THEN 100
                  ELSE Unclamped

\* The probability of a lion at night, asked with the name in capitals and
\* surrounded by whitespace: (30 + 25) / 100.
C19_Witness ==
    /\ pc = "sighting_returned"
    /\ sighting.animal_name = <<"\t", "L", "I", "O", "N", " ">>
    /\ sighting.weather = "night"
    /\ sighting.result = Float(55)

\* C20: every window passed to fetch_events is not empty and begins right
\* after the window fetched before it, in this cycle or in an earlier one;
\* the first window of the run begins right after the checkpoint the run
\* started from.
C20_WindowsContiguousAcrossCycles ==
    [][(pc = "fetch" /\ pc' = "dispatch")
          => /\ from_block' <= to_block'
             /\ from_block' =
                   IF prev_window = <<>>
                      THEN seed.last_processed_block + 1
                      ELSE prev_window[2] + 1]_vars

\* The first window of a later cycle has been fetched: windows were fetched
\* in an earlier cycle and the chain has grown since.
C20_Witness ==
    /\ pc = "dispatch" /\ ~crashed
    /\ Len(windows) = 1
    /\ prev_window = <<from_block, to_block>>
    /\ seed.type = "int"
    /\ from_block >= seed.last_processed_block + 2
    /\ state = IntState(from_block - 1)

\* The transaction ids of the events passed to process_event.
HandlerTxIds == {e.transactionHash : e \in HandlerEvents}

\* C21: the dedup set is at every moment the set of transaction ids whose
\* source-transaction line has been logged as an action; it never loses an
\* id, and a call that ends as skipped for the wrong chain or as failed
\* leaves it as it was.
C21_DedupSetIsDispatchedIds ==
    /\ [](processed_events = {tx \in HandlerTxIds : Dispatches(tx) >= 1})
    /\ [][/\ processed_events \subseteq processed_events'
          /\ (/\ calls' = calls + 1
              /\ outcome' \in {"SkippedWrongChain", "Failed"})
                => processed_events' = processed_events]_vars

\* After one deposit was dispatched, the handling of a deposit of another
\* transaction failed on its nonce, after two of the three action lines
\* were logged, and its id is not in the dedup set.
C21_Witness ==
    /\ pc = "handler"
    /\ outcome = "Failed"
    /\ last_event.missing = "nonce"
    /\ last_event.destinationChainId = DESTINATION_CHAIN_ID
    /\ Cardinality(processed_events) = 1
    /\ last_event.transactionHash \notin processed_events
    /\ Len(sink) = 5

====
